---- MODULE Spec2Model ----
(***************************************************************************)
(* HarmonicVisualizer (lab_5/lab_5.py): parameter snapshot, the cached     *)
(* harmonic and noise arrays, the three plotted lines, and the three       *)
(* event handlers _update, _reset and _toggle_noise.                       *)
(*                                                                         *)
(* Fixed-point units.  amplitude, frequency, cutoff_frequency: tenths.     *)
(* noise_mean, noise_covariance: hundredths.  phase: twelfths of a turn    *)
(* (0..12 is [0, 2*pi]).  Signal samples: thousandths.                     *)
(* The arrays are tracked at NumObs evenly spaced indices of the           *)
(* NumPoints-sample time base.                                             *)
(***************************************************************************)
EXTENDS Integers, Sequences, FiniteSets, TLC

VARIABLES params, sliders, harmonic, noise, noise_key,
          line_noisy, line_clean, line_filtered, visible, last

vars == <<params, sliders, harmonic, noise, noise_key,
          line_noisy, line_clean, line_filtered, visible, last>>

----------------------------------------------------------------------------
(* Bounds of the model *)

NumObs == 5

NumDraws == 2

----------------------------------------------------------------------------
(* Program constants *)

\* np.linspace(0, 10, 1000): number of samples
NumPoints == 1000

\* np.linspace(0, 10, 1000): right end of the time span
TSpan == 10

initial_params ==
  [amplitude |-> 10, frequency |-> 3, phase |-> 0, noise_mean |-> 0,
   noise_covariance |-> 15, cutoff_frequency |-> 20, show_noise |-> TRUE]

\* the six sliders, in the order _reset resets them
SliderOrder ==
  <<"amplitude", "frequency", "phase", "noise_mean", "noise_covariance",
    "cutoff_frequency">>

Fields == {SliderOrder[k] : k \in 1..Len(SliderOrder)}

SliderMin ==
  [amplitude |-> 1, frequency |-> 1, phase |-> 0, noise_mean |-> -50,
   noise_covariance |-> 0, cutoff_frequency |-> 1]

\* a cutoff slider whose upper end is ten times too large
SliderMaxWide ==
  [amplitude |-> 20, frequency |-> 20, phase |-> 12, noise_mean |-> 50,
   noise_covariance |-> 50, cutoff_frequency |-> 1000]

SliderMax ==
  [amplitude |-> 20, frequency |-> 20, phase |-> 12, noise_mean |-> 50,
   noise_covariance |-> 50, cutoff_frequency |-> 100]

InDomain(f, v) == SliderMin[f] <= v /\ v <= SliderMax[f]

----------------------------------------------------------------------------
(* Inputs *)

\* values a slider may be given; 30 (amplitude 3.0) and 500 (cutoff 50.0)
\* lie outside the sliders' ranges
SampleVals ==
  [amplitude |-> {10, 20, 30}, frequency |-> {3, 10}, phase |-> {0, 3},
   noise_mean |-> {0, 50}, noise_covariance |-> {0, 15},
   cutoff_frequency |-> {100, 500}]

ValidVals(f) == {v \in SampleVals[f] : InDomain(f, v)}

\* values given through Slider.set_val, which does not clamp
SetValVals ==
  [amplitude |-> {10, 30}, frequency |-> {3, 10}, phase |-> {0},
   noise_mean |-> {0, 50}, noise_covariance |-> {15},
   cutoff_frequency |-> {20, 500}]

ParamSets(vals) ==
  {[amplitude |-> a, frequency |-> f, phase |-> ph, noise_mean |-> m,
    noise_covariance |-> c, cutoff_frequency |-> w] :
     a \in vals.amplitude, f \in vals.frequency, ph \in vals.phase,
     m \in vals.noise_mean, c \in vals.noise_covariance,
     w \in vals.cutoff_frequency}

ValidParamSets == ParamSets([f \in Fields |-> ValidVals(f)])

\* outcomes of one call of np.random.normal over the whole array
Draws == 1..NumDraws

\* the outcomes that matter to an update: np.random.normal is called only
\* when a noise parameter of new differs from the one held in p
DrawsFor(new, p) ==
  IF new.noise_mean # p.noise_mean \/ new.noise_covariance # p.noise_covariance
  THEN Draws ELSE {1}

----------------------------------------------------------------------------
(* Numeric helpers *)

Obs == 1..NumObs

\* index into self.t of the k-th tracked sample
ObsIndex(k) == ((k - 1) * (NumPoints - 1)) \div (NumObs - 1)

\* 100 * sin of a twelfth-of-a-turn angle
SinTab == <<0, 50, 87, 100, 87, 50, 0, -50, -87, -100, -87, -50>>

Sin12(a) == SinTab[(a % 12) + 1]

\* 2*pi*frequency*t[i] in twelfths of a turn, t[i] = TSpan*i/(NumPoints-1)
Angle12(freq, i) == (12 * freq * TSpan * i) \div (10 * (NumPoints - 1))

\* np.sqrt of a value in hundredths, result in hundredths
Sqrt100(c) == CHOOSE r \in 0..80 : r * r <= 100 * c /\ (r + 1) * (r + 1) > 100 * c

\* the d-th outcome of the standard normal generator at sample k, in tenths
StdNormal(d, k) == (((7 * d + 5 * k) % 9) - 4) * 5

SeqAdd(x, y) == [k \in Obs |-> x[k] + y[k]]

----------------------------------------------------------------------------
(* Signal synthesis, noise, filter *)

calculate_harmonic(p) ==
  [k \in Obs |-> p.amplitude * Sin12(Angle12(p.frequency, ObsIndex(k)) + p.phase)]

generate_noise(p, d) ==
  LET scale == Sqrt100(p.noise_covariance)
  IN [k \in Obs |-> 10 * p.noise_mean + scale * StdNormal(d, k)]

\* normal_cutoff = cutoff / nyq, nyq = 0.5 * fs, fs = 1 / (t[1] - t[0])
NormalCutoffNum(cutoff) == cutoff * 2 * TSpan

NormalCutoffDen == 10 * (NumPoints - 1)

\* butter rejects a digital critical frequency outside 0 < Wn < 1
DesignValid(cutoff) ==
  0 < NormalCutoffNum(cutoff) /\ NormalCutoffNum(cutoff) < NormalCutoffDen

RECURSIVE Forward(_, _, _)
\* one low-pass sweep over x[1..k] with gain Wn
Forward(x, cutoff, k) ==
  IF k = 1 THEN <<x[1]>>
  ELSE LET y == Forward(x, cutoff, k - 1)
       IN Append(y, y[k - 1]
                    + (NormalCutoffNum(cutoff) * (x[k] - y[k - 1])) \div NormalCutoffDen)

Reverse(x) == [k \in Obs |-> x[NumObs + 1 - k]]

\* filtfilt: forward sweep, then the same sweep over the reversed result
filtfilt(cutoff, x) ==
  Reverse(Forward(Reverse(Forward(x, cutoff, NumObs)), cutoff, NumObs))

----------------------------------------------------------------------------
(* The object: one record per state of a HarmonicVisualizer *)

Cur ==
  [params |-> params, sliders |-> sliders, harmonic |-> harmonic,
   noise |-> noise, noise_key |-> noise_key, line_noisy |-> line_noisy,
   line_clean |-> line_clean, line_filtered |-> line_filtered,
   visible |-> visible, last |-> last]

Commit(s) ==
  /\ params' = s.params
  /\ sliders' = s.sliders
  /\ harmonic' = s.harmonic
  /\ noise' = s.noise
  /\ noise_key' = s.noise_key
  /\ line_noisy' = s.line_noisy
  /\ line_clean' = s.line_clean
  /\ line_filtered' = s.line_filtered
  /\ visible' = s.visible
  /\ last' = s.last

\* what the last event did: which handler ran, which arrays it rebuilt,
\* whether the incoming cutoff differed from the snapshot, whether butter raised
NoCall(ev) ==
  [event |-> ev, harmonic_recomputed |-> FALSE, noise_regenerated |-> FALSE,
   cutoff_changed |-> FALSE, filter_called |-> FALSE, filter_failed |-> FALSE]

\* dict.update: every key of new overwrites, the other keys stay
ParamsUpdate(p, new) ==
  [f \in DOMAIN p |-> IF f \in DOMAIN new THEN new[f] ELSE p[f]]

\* the parameters a noise array was generated with
NoiseKey(p) == [noise_mean |-> p.noise_mean, noise_covariance |-> p.noise_covariance]

----------------------------------------------------------------------------
(* _update and _update_filter *)

\* a staleness test that forgets the phase
HarmonicStaleNoPhase(new_params, p) ==
  \/ new_params.amplitude # p.amplitude
  \/ new_params.frequency # p.frequency

HarmonicStale(new_params, p) ==
  \/ new_params.amplitude # p.amplitude
  \/ new_params.frequency # p.frequency
  \/ new_params.phase # p.phase

NoiseStale(new_params, p) ==
  \/ new_params.noise_mean # p.noise_mean
  \/ new_params.noise_covariance # p.noise_covariance

\* a filter step that filters the clean harmonic instead of its argument
update_filter_clean(s, noisy_signal) ==
  [s EXCEPT !.line_filtered = filtfilt(s.params.cutoff_frequency, s.harmonic),
            !.last.filter_called = TRUE]

update_filter(s, noisy_signal) ==
  LET cutoff == s.params.cutoff_frequency
  IN IF DesignValid(cutoff)
     THEN [s EXCEPT !.line_filtered = filtfilt(cutoff, noisy_signal),
                    !.last.filter_called = TRUE]
     ELSE [s EXCEPT !.last.filter_called = TRUE, !.last.filter_failed = TRUE]

update(s, d) ==
  LET new_params == s.sliders
      hstale == HarmonicStale(new_params, s.params)
      s1 == IF hstale
            THEN LET p == ParamsUpdate(s.params, new_params)
                 IN [s EXCEPT !.params = p, !.harmonic = calculate_harmonic(p)]
            ELSE s
      nstale == NoiseStale(new_params, s1.params)
      s2 == IF nstale
            THEN LET p == ParamsUpdate(s1.params, new_params)
                 IN [s1 EXCEPT !.params = p, !.noise = generate_noise(p, d),
                               !.noise_key = NoiseKey(p)]
            ELSE s1
      s3 == [s2 EXCEPT !.params = ParamsUpdate(s2.params, new_params)]
      noisy_signal == SeqAdd(s3.harmonic, s3.noise)
      s4 == [s3 EXCEPT
               !.line_noisy = noisy_signal,
               !.line_clean = s3.harmonic,
               !.last = [event |-> "update",
                         harmonic_recomputed |-> hstale,
                         noise_regenerated |-> nstale,
                         cutoff_changed |->
                           new_params.cutoff_frequency # s.params.cutoff_frequency,
                         filter_called |-> FALSE,
                         filter_failed |-> FALSE]]
  IN update_filter(s4, noisy_signal)

----------------------------------------------------------------------------
(* _reset *)

OrLast(a, b) ==
  [event |-> "reset",
   harmonic_recomputed |-> a.harmonic_recomputed \/ b.harmonic_recomputed,
   noise_regenerated |-> a.noise_regenerated \/ b.noise_regenerated,
   cutoff_changed |-> a.cutoff_changed \/ b.cutoff_changed,
   filter_called |-> a.filter_called \/ b.filter_called,
   filter_failed |-> a.filter_failed \/ b.filter_failed]

RECURSIVE reset_from(_, _, _, _, _)
\* Slider.reset() on sliders k..6 in turn: a slider away from its valinit is
\* set back and fires _update.  raises: whether an exception of a callback
\* leaves _reset (it does outside a running GUI loop) or is only printed.
reset_from(s, k, dm, dc, raises) ==
  IF k > Len(SliderOrder) THEN s
  ELSE LET f == SliderOrder[k]
           fire == s.sliders[f] # initial_params[f]
           u == update([s EXCEPT !.sliders[f] = initial_params[f]],
                       IF k <= 4 THEN dm ELSE dc)
           s1 == IF fire THEN [u EXCEPT !.last = OrLast(s.last, u.last)] ELSE s
       IN IF fire /\ u.last.filter_failed /\ raises
          THEN s1
          ELSE reset_from(s1, k + 1, dm, dc, raises)

\* a reset that sets all six sliders back silently and fires _update once
reset_at_once(s, dm, dc, raises) ==
  LET u == update([s EXCEPT !.sliders =
                     [f \in Fields |-> initial_params[f]]], dm)
  IN [u EXCEPT !.last = OrLast(NoCall("reset"), u.last)]

reset(s, dm, dc, raises) ==
  reset_from([s EXCEPT !.last = NoCall("reset")], 1, dm, dc, raises)

----------------------------------------------------------------------------
(* _toggle_noise *)

\* a toggle that shows both overlays together
toggle_noise_both(s) ==
  LET show == ~s.params.show_noise
  IN [s EXCEPT !.params.show_noise = show,
               !.visible.noisy = show,
               !.visible.clean = show,
               !.last = NoCall("toggle")]

\* a toggle that also re-filters, from the clean harmonic
toggle_noise_refilter(s) ==
  LET show == ~s.params.show_noise
  IN [s EXCEPT !.params.show_noise = show,
               !.visible.noisy = show,
               !.visible.clean = ~show,
               !.line_filtered = filtfilt(s.params.cutoff_frequency, s.harmonic),
               !.last = NoCall("toggle")]

toggle_noise(s) ==
  LET show == ~s.params.show_noise
  IN [s EXCEPT !.params.show_noise = show,
               !.visible.noisy = show,
               !.visible.clean = ~show,
               !.last = NoCall("toggle")]

----------------------------------------------------------------------------
(* Construction *)

\* __init__ up to and including _setup_widgets
Constructed(d) ==
  LET p == initial_params
      h == calculate_harmonic(p)
      n == generate_noise(p, d)
  IN [params |-> p,
      sliders |-> [f \in Fields |-> p[f]],
      harmonic |-> h,
      noise |-> n,
      noise_key |-> NoiseKey(p),
      line_noisy |-> SeqAdd(h, n),
      line_clean |-> h,
      line_filtered |-> h,
      visible |-> [noisy |-> TRUE, clean |-> FALSE, filtered |-> TRUE],
      last |-> NoCall("init")]

\* __init__ ends with self._update(None)
Init ==
  \E d \in Draws :
    LET s == update(Constructed(d), d)
    IN /\ params = s.params
       /\ sliders = s.sliders
       /\ harmonic = s.harmonic
       /\ noise = s.noise
       /\ noise_key = s.noise_key
       /\ line_noisy = s.line_noisy
       /\ line_clean = s.line_clean
       /\ line_filtered = s.line_filtered
       /\ visible = s.visible
       /\ last = [s.last EXCEPT !.event = "init"]

----------------------------------------------------------------------------
(* Events *)

\* _update with the six sliders holding any parameter set of their ranges
UpdateValid ==
  \E new \in ValidParamSets :
    \E d \in DrawsFor(new, params) :
      Commit(update([Cur EXCEPT !.sliders = new], d))

\* _update with slider values given through set_val, unclamped
UpdateSetVal ==
  \E new \in ParamSets(SetValVals) :
    \E d \in DrawsFor(new, params) :
      Commit(update([Cur EXCEPT !.sliders = new], d))

\* one slider dragged: the widget clamps to [valmin, valmax], then _update
SliderMove ==
  \E f \in Fields :
    \E v \in ValidVals(f) :
      \E d \in DrawsFor([sliders EXCEPT ![f] = v], params) :
        Commit(update([Cur EXCEPT !.sliders[f] = v], d))

Reset ==
  \E dm \in Draws, dc \in Draws, raises \in BOOLEAN :
    Commit(reset(Cur, dm, dc, raises))

ToggleNoise == Commit(toggle_noise(Cur))

Next == UpdateValid \/ Reset \/ ToggleNoise

Spec == Init /\ [][Next]_vars

NextUI == SliderMove \/ Reset \/ ToggleNoise

SpecUI == Init /\ [][NextUI]_vars

NextSetVal == UpdateSetVal \/ Reset \/ ToggleNoise

SpecSetVal == Init /\ [][NextSetVal]_vars

----------------------------------------------------------------------------
(* Properties *)

\* the step just taken was one call of _update
UpdateCall == last'.event = "update"

\* the incoming values (the sliders at the call) against the snapshot held
\* before the call
HarmonicParamsDiffer ==
  \/ sliders'.amplitude # params.amplitude
  \/ sliders'.frequency # params.frequency
  \/ sliders'.phase # params.phase

NoiseParamsDiffer ==
  \/ sliders'.noise_mean # params.noise_mean
  \/ sliders'.noise_covariance # params.noise_covariance

CutoffDiffers == sliders'.cutoff_frequency # params.cutoff_frequency

NothingApplied ==
  /\ params' = params
  /\ harmonic' = harmonic
  /\ noise' = noise
  /\ line_noisy' = line_noisy
  /\ line_clean' = line_clean
  /\ line_filtered' = line_filtered

\* C1: a call of _update regenerates the noise array if and only if the
\* incoming noise_mean or noise_covariance differs from the snapshot held
\* before the call, whatever else changed in the same call.
C1_NoiseRegeneratedIffNoiseParamsDiffer ==
  [][UpdateCall => (last'.noise_regenerated <=> NoiseParamsDiffer)]_vars

\* C2: a call of _update recomputes the harmonic array if and only if the
\* incoming amplitude, frequency or phase differs from the snapshot held
\* before the call; otherwise the harmonic array is left as it was, and a
\* call that changes only the cutoff leaves the noise array as it was too.
C2_HarmonicRecomputedIffHarmonicParamsDiffer ==
  [][UpdateCall =>
       /\ last'.harmonic_recomputed <=> HarmonicParamsDiffer
       /\ HarmonicParamsDiffer => harmonic' = calculate_harmonic(sliders')
       /\ ~HarmonicParamsDiffer => harmonic' = harmonic
       /\ (~HarmonicParamsDiffer /\ ~NoiseParamsDiffer) => noise' = noise]_vars

\* C2 witness: a call that changed the cutoff and nothing else.
C2_OnlyCutoffChanged ==
  /\ last.event = "update"
  /\ last.cutoff_changed
  /\ ~last.harmonic_recomputed
  /\ ~last.noise_regenerated

\* C3: every call of _update runs the filter, and the filtered line is the
\* filter of the sum of the harmonic and noise arrays as they stand after
\* the call, at the incoming cutoff.
C3_FilteredRecomputedEveryCall ==
  [][UpdateCall =>
       /\ last'.filter_called
       /\ line_filtered' =
            filtfilt(sliders'.cutoff_frequency, SeqAdd(harmonic', noise'))]_vars

\* C3 witness: a call in which no parameter changed still ran the filter.
C3_FilteredWithNothingChanged ==
  /\ last.event = "update"
  /\ ~last.harmonic_recomputed
  /\ ~last.noise_regenerated
  /\ ~last.cutoff_changed
  /\ last.filter_called
  /\ line_filtered # line_noisy

\* C4: a toggle flips show_noise and leaves the six numeric parameters, the
\* harmonic and noise arrays and the data of the three lines as they were.
C4_ToggleRecomputesNothing ==
  [][last'.event = "toggle" =>
       /\ params'.show_noise = ~params.show_noise
       /\ \A f \in Fields : params'[f] = params[f]
       /\ sliders' = sliders
       /\ harmonic' = harmonic
       /\ noise' = noise
       /\ line_noisy' = line_noisy
       /\ line_clean' = line_clean
       /\ line_filtered' = line_filtered
       /\ ~last'.filter_called]_vars

\* C4 witness: a toggle taken while the filtered line differs from the
\* filter of the clean harmonic.
C4_Toggled ==
  /\ last.event = "toggle"
  /\ ~params.show_noise
  /\ line_filtered # filtfilt(params.cutoff_frequency, harmonic)

\* C5: after a reset every field of the parameter set, show_noise included,
\* has its default value.
C5_ResetRestoresAllDefaults ==
  last.event = "reset" => params = initial_params

\* C6: an update whose filter design fails leaves the parameter set, the
\* harmonic and noise arrays and the data of the three lines as they were
\* before the event.
C6_FailedUpdateAppliesNothing ==
  [][(UpdateCall /\ last'.filter_failed) => NothingApplied]_vars

\* C7: an update whose incoming value for some field lies outside the
\* field's range is rejected: the parameter set, the arrays and the lines
\* are as they were before the event.
C7_OutOfDomainRejected ==
  [][(UpdateCall /\ \E f \in Fields :
                      sliders'[f] # params[f] /\ ~InDomain(f, sliders'[f]))
       => NothingApplied]_vars

\* C8: every cutoff of the slider's range has a normalized cutoff strictly
\* between 0 and 1, so in every state reached through slider, reset and
\* toggle events the design precondition holds and the design never failed.
C8_DesignNeverFails ==
  /\ \A c \in SliderMin.cutoff_frequency..SliderMax.cutoff_frequency :
       DesignValid(c)
  /\ DesignValid(params.cutoff_frequency)
  /\ ~last.filter_failed

\* C8 witness: the filter ran with the cutoff slider at its upper end.
C8_CutoffAtSliderMax ==
  /\ last.event = "update"
  /\ last.filter_called
  /\ last.cutoff_changed
  /\ params.cutoff_frequency = 100

\* C9: when every update changes at most one slider, the stored harmonic is
\* the synthesis from the current amplitude, frequency and phase, and the
\* stored noise is an array generated with the current noise parameters.
C9_ArraysFresh ==
  /\ harmonic = calculate_harmonic(params)
  /\ noise_key = NoiseKey(params)
  /\ \E d \in Draws : noise = generate_noise(params, d)

\* C9 witness: a reset that rebuilt both arrays, from a state with a
\* harmonic and a noise parameter away from their defaults.
C9_ResetRebuiltBoth ==
  /\ last.event = "reset"
  /\ last.harmonic_recomputed
  /\ last.noise_regenerated

\* C10: the noisy line is visible exactly when show_noise holds, the clean
\* line exactly when it does not, and the filtered line always.
C10_VisibilityFollowsShowNoise ==
  /\ visible.noisy = params.show_noise
  /\ visible.clean = ~params.show_noise
  /\ visible.filtered

\* C10 witness: after a toggle the clean line is shown and the noisy hidden.
C10_CleanShown ==
  /\ last.event = "toggle"
  /\ ~params.show_noise
  /\ visible.clean
  /\ ~visible.noisy

====
